---- MODULE Spec2Model ----
(***************************************************************************)
(* Model of src/bot.py: a Telegram bot that answers /start and /help and   *)
(* sends a farewell direct message to users who leave a group.             *)
(*                                                                         *)
(* The process is modelled from module import (reading the environment)    *)
(* through main() (handler registration, mode selection) to the update     *)
(* loop, in which the framework hands one update at a time to the first    *)
(* registered handler that accepts it.  Everything observable (log         *)
(* records, outbound sends, replies, exceptions leaving a handler) is      *)
(* appended to one ordered trace.                                          *)
(***************************************************************************)
EXTENDS Integers, Sequences, FiniteSets, TLC

VARIABLES environ, pc, TOKEN, PORT, WEBHOOK_URL, handlers, ip, mode,
          listenPort, entered, updates, routed, outcome, cur, trace

vars == <<environ, pc, TOKEN, PORT, WEBHOOK_URL, handlers, ip, mode,
          listenPort, entered, updates, routed, outcome, cur, trace>>

(* ---------------------------- bounds ----------------------------------- *)
MaxUpdates == 2

(* ------------------------- strings and text ---------------------------- *)
None == "None"

\* Python truthiness of an Optional[str]: None and "" are falsy.
Truthy(s) == s # None /\ s # ""

Digits == <<"0", "1", "2", "3", "4", "5", "6", "7", "8", "9">>

IsDigit(c) == \E d \in 1..10 : Digits[d] = c

DigitVal(c) == (CHOOSE d \in 1..10 : Digits[d] = c) - 1

\* int(s) succeeds on a non-empty string of decimal digits.
IntParses(s) == Len(s) > 0 /\ \A i \in 1..Len(s) : IsDigit(s[i])

RECURSIVE ParseInt(_)
ParseInt(s) ==
    IF Len(s) = 0 THEN 0
    ELSE 10 * ParseInt(SubSeq(s, 1, Len(s) - 1)) + DigitVal(s[Len(s)])

DEFAULT_PORT == 8443

\* A text is the sequence of the pieces an f-string is built from.
Contains(text, piece) == \E i \in 1..Len(text) : text[i] = piece

Str(n) == ToString(n)

(* --------------------------- environment ------------------------------- *)
NoPort == <<>>

TokenValues == {None, "", "123:abc"}
PortValues == {NoPort, <<"8", "0">>, <<"9", "x">>}
PortIsSet == {TRUE, FALSE}
UrlValues == {None, "", "https://bot.example"}

\* PORT_SET tells whether the variable PORT exists in the environment; a
\* variable that is set may still hold the empty string.
Environments ==
    { e \in [TELEGRAM_TOKEN : TokenValues, PORT_SET : PortIsSet,
             PORT : PortValues, WEBHOOK_URL : UrlValues] :
        (e.PORT_SET = FALSE) => (e.PORT = NoPort) }

(* ------------------------ users, chats, updates ------------------------ *)
BOT_ID == 99

Alice == [id |-> 42, first_name |-> "Alice", last_name |-> None]
Bob == [id |-> 7, first_name |-> "Bob", last_name |-> "Stone"]
Bot == [id |-> BOT_ID, first_name |-> "wltdo", last_name |-> None]
NoUser == [id |-> 0, first_name |-> None, last_name |-> None]

Group == [id |-> -555, title |-> "Book Club"]
Private == [id |-> 42, title |-> None]

\* User.full_name: first name, then a space and the last name if there is one.
FullName(u) ==
    IF u.last_name = None THEN <<u.first_name>>
    ELSE <<u.first_name, " ", u.last_name>>

\* Updates the platform can deliver.  kind names the field of the Update
\* that carries the message: "message", "edited_message", or neither.
TextUpdates ==
    [kind : {"message", "edited_message"}, chat : {Group, Private},
     text : {"/start", "/help", "hello"}, left : {NoUser}]

LeftUpdates ==
    [kind : {"message"}, chat : {Group}, text : {None},
     left : {Alice, Bob, Bot}]

OtherUpdates ==
    [kind : {"callback_query"}, chat : {Private}, text : {None},
     left : {NoUser}]

Updates == TextUpdates \cup LeftUpdates \cup OtherUpdates

\* update.message is set only for kind "message".
HasMessage(u) == u.kind = "message"

\* update.effective_message: the message or the edited message.
HasEffectiveMessage(u) == u.kind \in {"message", "edited_message"}


(* ------------------------------ events --------------------------------- *)
\* One observable effect of the process.  type is "log", "send" (bot
\* send_message), "reply" (message.reply_text) or "raise" (an exception that
\* leaves a handler).
Ev(type, level, chat_id, text) ==
    [type |-> type, level |-> level, chat_id |-> chat_id, text |-> text]

LogInfo(text) == Ev("log", "INFO", 0, text)
LogError(text) == Ev("log", "ERROR", 0, text)
SendMessage(chat_id, text) == Ev("send", "", chat_id, text)
ReplyText(chat_id, text) == Ev("reply", "", chat_id, text)
Raise(text) == Ev("raise", "", 0, text)

Stamp(e, k) ==
    [type |-> e.type, level |-> e.level, chat_id |-> e.chat_id,
     text |-> e.text, upd |-> k]

StampAll(es, k) == [i \in 1..Len(es) |-> Stamp(es[i], k)]

\* What a handler does up to its first await (or to its end): the effects in
\* order, and whether it is now waiting for an outbound call to finish.
Effect(events, awaiting) == [events |-> events, awaiting |-> awaiting]

(* --------------------------- /start, /help ----------------------------- *)
START_TEXT ==
    <<"Hi! I'm a bot that tracks when users leave groups. ",
      "Add me to a group and I'll message users who leave.">>

HELP_TEXT ==
    <<"Commands:\n", "/start - Start the bot\n",
      "/help - Show this help message\n\n",
      "Add me to a group and I'll automatically message users who leave.">>

\* update.message.reply_text(...): attribute access on None raises.
start(u) ==
    IF HasMessage(u)
    THEN Effect(<<ReplyText(u.chat.id, START_TEXT)>>, TRUE)
    ELSE Effect(<<Raise(<<"AttributeError">>)>>, FALSE)

help_command(u) ==
    IF HasMessage(u)
    THEN Effect(<<ReplyText(u.chat.id, HELP_TEXT)>>, TRUE)
    ELSE Effect(<<Raise(<<"AttributeError">>)>>, FALSE)

\* The reply is not wrapped in try/except: a failure leaves the handler.
command_resume(u, result) ==
    IF result = "ok" THEN <<>> ELSE <<Raise(<<result>>)>>

(* ------------------------- handle_member_left -------------------------- *)
\* Variant: the left-member field is not inspected before use.
IsDepartureUnchecked(u) == HasMessage(u)

\* if update.message and update.message.left_chat_member
IsDeparture(u) == HasMessage(u) /\ u.left # NoUser

\* Variant: the bot's own removal is not told apart.
IsBotItselfNever(left_user, bot_id) == FALSE

\* if left_user.id == context.bot.id
IsBotItself(left_user, bot_id) == left_user.id = bot_id

RemovedLog(chat) ==
    <<"Bot was removed from ", chat.title, " (", Str(chat.id), ")">>

DepartureLog(left_user, chat) ==
    <<"User ">> \o FullName(left_user) \o
    <<" (ID: ", Str(left_user.id), ") left group ", chat.title,
      " (ID: ", Str(chat.id), ") at ", "datetime.now()">>

\* Variant: the template leaves out the chat's title.
FarewellTextNoTitle(left_user, chat) ==
    <<"Hi ", left_user.first_name, ", we noticed you left the group. ",
      "We hope you enjoyed your time in the group! ",
      "If you have any feedback, please let us know.">>

FarewellText(left_user, chat) ==
    <<"Hi ", left_user.first_name, ", we noticed you left ", chat.title,
      ". ", "We hope you enjoyed your time in the group! ",
      "If you have any feedback, please let us know.">>

\* chat_id= argument of context.bot.send_message
FarewellTarget(left_user, chat) == left_user.id

SentLog(left_user) ==
    <<"Sent farewell message to ">> \o FullName(left_user) \o
    <<" (", Str(left_user.id), ")">>

FailedLog(left_user, e) ==
    <<"Could not send message to ">> \o FullName(left_user) \o <<": ", e>>

handle_member_left(u, bot_id) ==
    IF IsDeparture(u)
    THEN IF IsBotItself(u.left, bot_id)
         THEN Effect(<<LogInfo(RemovedLog(u.chat))>>, FALSE)
         ELSE Effect(<<LogInfo(DepartureLog(u.left, u.chat)),
                       SendMessage(FarewellTarget(u.left, u.chat),
                                   FarewellText(u.left, u.chat))>>, TRUE)
    ELSE Effect(<<>>, FALSE)

\* Variant: no try/except around the send.
member_left_resume_uncaught(u, result) ==
    IF result = "ok"
    THEN <<LogInfo(SentLog(u.left))>>
    ELSE <<Raise(<<result>>)>>

\* Variant: a failed send is reported to the group.
member_left_resume_notify(u, result) ==
    IF result = "ok"
    THEN <<LogInfo(SentLog(u.left))>>
    ELSE <<LogError(FailedLog(u.left, result)),
           SendMessage(u.chat.id, FarewellText(u.left, u.chat))>>

\* Variant: a successful send is not logged.
member_left_resume_silent(u, result) ==
    IF result = "ok"
    THEN <<>>
    ELSE <<LogError(FailedLog(u.left, result))>>

\* The rest of the try block, or the except block.
member_left_resume(u, result) ==
    IF result = "ok"
    THEN <<LogInfo(SentLog(u.left))>>
    ELSE <<LogError(FailedLog(u.left, result))>>

(* ------------------------ framework dispatch --------------------------- *)
\* CommandHandler(cmd, ...) with its default filter accepts a command sent as
\* a message or as an edited message; MessageHandler(LEFT_CHAT_MEMBER, ...)
\* accepts an update whose effective message carries left_chat_member.
CheckUpdate(h, u) ==
    CASE h = "start" -> HasEffectiveMessage(u) /\ u.text = "/start"
      [] h = "help_command" -> HasEffectiveMessage(u) /\ u.text = "/help"
      [] h = "handle_member_left" ->
            HasEffectiveMessage(u) /\ u.left # NoUser
      [] OTHER -> FALSE

\* The first registered handler that accepts the update gets it.
Route(hs, u) ==
    IF \E i \in 1..Len(hs) : CheckUpdate(hs[i], u)
    THEN hs[CHOOSE i \in 1..Len(hs) :
                /\ CheckUpdate(hs[i], u)
                /\ \A j \in 1..(i - 1) : ~CheckUpdate(hs[j], u)]
    ELSE "none"

Invoke(h, u) ==
    CASE h = "start" -> start(u)
      [] h = "help_command" -> help_command(u)
      [] h = "handle_member_left" -> handle_member_left(u, BOT_ID)
      [] OTHER -> Effect(<<>>, FALSE)

Resume(h, u, result) ==
    IF h = "handle_member_left" THEN member_left_resume(u, result)
    ELSE command_resume(u, result)

\* Reasons an outbound call fails with.
SendErrors == {"Forbidden: bot was blocked by the user"}

(* ------------------------- module import ------------------------------- *)
\* Variant: only an unset token is rejected (if TOKEN is None).
TokenMissingIsNone(tok) == tok = None

\* if not TOKEN: raise ValueError(...)
TokenMissing(tok) == ~Truthy(tok)

\* int(os.environ.get("PORT", 8443)) raises ValueError on a bad string.
PortInvalid(e) == e.PORT_SET /\ ~IntParses(e.PORT)

PortOf(e) == IF e.PORT_SET THEN ParseInt(e.PORT) ELSE DEFAULT_PORT

\* Variant: the branches of the mode switch are exchanged.
SelectModeSwapped(url) == IF Truthy(url) THEN "polling" ELSE "webhook"

\* if WEBHOOK_URL: run_webhook(...) else: run_polling()
SelectMode(url) == IF Truthy(url) THEN "webhook" ELSE "polling"

\* Variant: update delivery starts before the last handler is added.
MainProgramRunEarly ==
    <<"add_start", "add_help", "run", "add_member_left", "log_started">>

\* The statements of main() after the Application is built.
MainProgram ==
    <<"add_start", "add_help", "add_member_left", "run", "log_started">>

HandlerOf(stmt) ==
    CASE stmt = "add_start" -> "start"
      [] stmt = "add_help" -> "help_command"
      [] stmt = "add_member_left" -> "handle_member_left"

Init ==
    /\ environ \in Environments
    /\ pc = "import"
    /\ TOKEN = None
    /\ PORT = 0
    /\ WEBHOOK_URL = None
    /\ handlers = <<>>
    /\ ip = 0
    /\ mode = "none"
    /\ listenPort = 0
    /\ entered = {}
    /\ updates = <<>>
    /\ routed = <<>>
    /\ outcome = <<>>
    /\ cur = 0
    /\ trace = <<>>

\* Lines 24-31: read the configuration; a missing token or an unparsable
\* port raises and the process ends before main() is called.
Import ==
    /\ pc = "import"
    /\ TOKEN' = environ.TELEGRAM_TOKEN
    /\ IF TokenMissing(environ.TELEGRAM_TOKEN)
       THEN /\ pc' = "raised"
            /\ UNCHANGED <<PORT, WEBHOOK_URL, ip>>
       ELSE IF PortInvalid(environ)
            THEN /\ pc' = "raised"
                 /\ UNCHANGED <<PORT, WEBHOOK_URL, ip>>
            ELSE /\ PORT' = PortOf(environ)
                 /\ WEBHOOK_URL' = environ.WEBHOOK_URL
                 /\ pc' = "main"
                 /\ ip' = 1
    /\ UNCHANGED <<environ, handlers, mode, listenPort, entered, updates,
                   routed, outcome, cur, trace>>

\* application.add_handler(...)
AddHandler ==
    /\ pc = "main"
    /\ MainProgram[ip] \in {"add_start", "add_help", "add_member_left"}
    /\ handlers' = Append(handlers, HandlerOf(MainProgram[ip]))
    /\ ip' = ip + 1
    /\ UNCHANGED <<environ, pc, TOKEN, PORT, WEBHOOK_URL, mode, listenPort,
                   entered, updates, routed, outcome, cur, trace>>

\* application.run_webhook(port=PORT, ...) or application.run_polling():
\* the call blocks while updates are served.
RunMode ==
    /\ pc = "main"
    /\ MainProgram[ip] = "run"
    /\ mode' = SelectMode(WEBHOOK_URL)
    /\ listenPort' = IF SelectMode(WEBHOOK_URL) = "webhook" THEN PORT ELSE 0
    /\ entered' = entered \cup {SelectMode(WEBHOOK_URL)}
    /\ pc' = "running"
    /\ UNCHANGED <<environ, TOKEN, PORT, WEBHOOK_URL, handlers, ip, updates,
                   routed, outcome, cur, trace>>

\* Shared by the update loop and by a direct call of one handler: run
\* handler h on update u up to its first await.
Handle(h, u) ==
    LET k == Len(updates) + 1
        r == Invoke(h, u)
    IN  /\ updates' = Append(updates, u)
        /\ routed' = Append(routed, h)
        /\ trace' = trace \o StampAll(r.events, k)
        /\ outcome' = Append(outcome, IF r.awaiting THEN "pending" ELSE "none")
        /\ cur' = IF r.awaiting THEN k ELSE 0

\* The framework takes the next update and dispatches it.
Deliver ==
    /\ pc = "running"
    /\ cur = 0
    /\ Len(updates) < MaxUpdates
    /\ \E u \in Updates : Handle(Route(handlers, u), u)
    /\ UNCHANGED <<environ, pc, TOKEN, PORT, WEBHOOK_URL, handlers, ip, mode,
                   listenPort, entered>>

\* The awaited outbound call returns.
AwaitReturns ==
    /\ cur # 0
    /\ trace' = trace \o StampAll(Resume(routed[cur], updates[cur], "ok"), cur)
    /\ outcome' = [outcome EXCEPT ![cur] = "ok"]
    /\ cur' = 0
    /\ UNCHANGED <<environ, pc, TOKEN, PORT, WEBHOOK_URL, handlers, ip, mode,
                   listenPort, entered, updates, routed>>

\* The awaited outbound call raises.
AwaitRaises ==
    /\ cur # 0
    /\ \E e \in SendErrors :
          trace' = trace \o StampAll(Resume(routed[cur], updates[cur], e), cur)
    /\ outcome' = [outcome EXCEPT ![cur] = "error"]
    /\ cur' = 0
    /\ UNCHANGED <<environ, pc, TOKEN, PORT, WEBHOOK_URL, handlers, ip, mode,
                   listenPort, entered, updates, routed>>

\* A stop signal ends run_polling / run_webhook between two updates.
Stop ==
    /\ pc = "running"
    /\ cur = 0
    /\ pc' = "main"
    /\ ip' = ip + 1
    /\ UNCHANGED <<environ, TOKEN, PORT, WEBHOOK_URL, handlers, mode,
                   listenPort, entered, updates, routed, outcome, cur, trace>>

\* logger.info("Bot started with ...") runs once the blocking call is over;
\* main() then returns.
LogStarted ==
    /\ pc = "main"
    /\ MainProgram[ip] = "log_started"
    /\ trace' = Append(trace, Stamp(LogInfo(
                   IF mode = "webhook"
                   THEN <<"Bot started with webhook on port ", Str(PORT)>>
                   ELSE <<"Bot started with polling">>), 0))
    /\ pc' = "exited"
    /\ UNCHANGED <<environ, TOKEN, PORT, WEBHOOK_URL, handlers, ip, mode,
                   listenPort, entered, updates, routed, outcome, cur>>

Next ==
    \/ Import
    \/ AddHandler
    \/ RunMode
    \/ Deliver
    \/ AwaitReturns
    \/ AwaitRaises
    \/ Stop
    \/ LogStarted

Spec == Init /\ [][Next]_vars

(* ------------------- the departure handler on its own ------------------ *)
\* handle_member_left called directly, on any update, with a context whose
\* bot has id BOT_ID; the module has been imported successfully.
InitHandler ==
    /\ environ \in {e \in Environments :
                       ~TokenMissing(e.TELEGRAM_TOKEN) /\ ~PortInvalid(e)}
    /\ pc = "called"
    /\ TOKEN = environ.TELEGRAM_TOKEN
    /\ PORT = PortOf(environ)
    /\ WEBHOOK_URL = environ.WEBHOOK_URL
    /\ handlers = <<>>
    /\ ip = 0
    /\ mode = "none"
    /\ listenPort = 0
    /\ entered = {}
    /\ updates = <<>>
    /\ routed = <<>>
    /\ outcome = <<>>
    /\ cur = 0
    /\ trace = <<>>

CallMemberLeft ==
    /\ pc = "called"
    /\ cur = 0
    /\ Len(updates) < MaxUpdates
    /\ \E u \in Updates : Handle("handle_member_left", u)
    /\ UNCHANGED <<environ, pc, TOKEN, PORT, WEBHOOK_URL, handlers, ip, mode,
                   listenPort, entered>>

NextHandler ==
    \/ CallMemberLeft
    \/ AwaitReturns
    \/ AwaitRaises

SpecHandler == InitHandler /\ [][NextHandler]_vars

(* ============================ properties ============================== *)
SendsOf(k) == {i \in 1..Len(trace) : trace[i].upd = k /\ trace[i].type = "send"}
RepliesOf(k) == {i \in 1..Len(trace) : trace[i].upd = k /\ trace[i].type = "reply"}
LogsOf(k) == {i \in 1..Len(trace) : trace[i].upd = k /\ trace[i].type = "log"}
RaisesOf(k) == {i \in 1..Len(trace) : trace[i].upd = k /\ trace[i].type = "raise"}
AllOf(k) == {i \in 1..Len(trace) : trace[i].upd = k}

\* Update k went to the departure handler.
ToMemberLeft(k) == routed[k] = "handle_member_left"

\* Update k reports a user other than the bot leaving.
Genuine(k) ==
    /\ ToMemberLeft(k)
    /\ updates[k].kind = "message"
    /\ updates[k].left # NoUser
    /\ updates[k].left.id # BOT_ID

\* One departure log entry, then one send to the user who left.
LoggedThenSent(k) ==
    /\ Cardinality(SendsOf(k)) = 1
    /\ \A i \in SendsOf(k) :
          /\ trace[i].chat_id = updates[k].left.id
          /\ Cardinality({j \in LogsOf(k) : j < i}) = 1

\* C1: a genuine departure (left-member id other than the bot's) yields
\* exactly one log entry before the send attempt and exactly one send, to the
\* departing user's id, whose text contains the user's first name and the
\* chat's title.
C1_GenuineDeparture ==
    \A k \in 1..Len(updates) :
        Genuine(k) =>
            /\ LoggedThenSent(k)
            /\ \A i \in SendsOf(k) :
                  /\ Contains(trace[i].text, updates[k].left.first_name)
                  /\ Contains(trace[i].text, updates[k].chat.title)

C1_Witness ==
    \E k \in 1..Len(updates) :
        /\ Genuine(k)
        /\ updates[k].left = Bob
        /\ \E i \in SendsOf(k) : trace[i].chat_id = 7

\* C2: when the send of a departure fails there is exactly one error-level
\* log entry for that update, no exception leaves the handler, the process
\* has not ended with an error, and every later genuine departure is still
\* logged and gets its own send.
C2_SendFailureSwallowed ==
    \A k \in 1..Len(updates) :
        (ToMemberLeft(k) /\ outcome[k] = "error") =>
            /\ Cardinality({i \in LogsOf(k) : trace[i].level = "ERROR"}) = 1
            /\ RaisesOf(k) = {}
            /\ pc # "raised"
            /\ \A j \in (k + 1)..Len(updates) : Genuine(j) => LoggedThenSent(j)

C2_Witness ==
    \E k \in 1..Len(updates) :
        /\ ToMemberLeft(k)
        /\ outcome[k] = "error"
        /\ \E j \in (k + 1)..Len(updates) : Genuine(j) /\ SendsOf(j) # {}

\* C3: an update without a left-member field (an update without any message
\* included) makes the departure handler do nothing: no outbound call, no
\* log entry, no exception.
C3_NoLeftMemberNoOp ==
    \A k \in 1..Len(updates) :
        (ToMemberLeft(k) /\ updates[k].left = NoUser) =>
            /\ AllOf(k) = {}
            /\ outcome[k] = "none"

C3_Witness ==
    /\ \E k \in 1..Len(updates) :
          /\ ToMemberLeft(k)
          /\ updates[k].kind = "callback_query"
    /\ \E k \in 1..Len(updates) :
          /\ ToMemberLeft(k)
          /\ updates[k].kind = "message"
          /\ updates[k].left = NoUser

\* C4: when the member who left is the bot itself there is exactly one log
\* entry and no outbound message.
C4_BotRemoved ==
    \A k \in 1..Len(updates) :
        (ToMemberLeft(k) /\ updates[k].left.id = BOT_ID) =>
            /\ Cardinality(LogsOf(k)) = 1
            /\ SendsOf(k) = {}
            /\ RepliesOf(k) = {}

C4_Witness ==
    \E k \in 1..Len(updates) :
        /\ ToMemberLeft(k)
        /\ updates[k].left.id = BOT_ID
        /\ LogsOf(k) # {}

\* C5: the departure handler sends at most once per update, every send goes
\* to the user who left and never to the group, and a failed send is
\* followed by no other send for that update.
C5_NoRetryNoGroupNotice ==
    \A k \in 1..Len(updates) :
        ToMemberLeft(k) =>
            /\ Cardinality(SendsOf(k)) <= 1
            /\ RepliesOf(k) = {}
            /\ \A i \in SendsOf(k) :
                  /\ trace[i].chat_id = updates[k].left.id
                  /\ trace[i].chat_id # updates[k].chat.id
            /\ (outcome[k] = "error" => Cardinality(SendsOf(k)) = 1)

C5_Witness ==
    \E k \in 1..Len(updates) :
        /\ ToMemberLeft(k)
        /\ outcome[k] = "error"
        /\ Len(updates) > k

FixedText(h) == IF h = "start" THEN START_TEXT ELSE HELP_TEXT

\* C6: every update dispatched to the /start or the /help handler gets
\* exactly one reply, in the chat it came from, with that handler's fixed
\* text.
C6_OneFixedReply ==
    \A k \in 1..Len(updates) :
        routed[k] \in {"start", "help_command"} =>
            /\ Cardinality(RepliesOf(k)) = 1
            /\ \A i \in RepliesOf(k) :
                  /\ trace[i].chat_id = updates[k].chat.id
                  /\ trace[i].text = FixedText(routed[k])

\* The run has reached or passed the blocking run_* call of main().
Started == pc \in {"running", "exited"} \/ (pc = "main" /\ ip > 4)

\* A webhook URL is configured when the variable holds a non-empty value.
UrlConfigured == environ.WEBHOOK_URL \notin {None, ""}

\* C7: the mode depends only on whether a webhook URL is configured: without
\* one main starts polling and never the webhook; with one main starts the
\* webhook on the configured port (8443 when none is set) and never polling.
C7_ModeSelection ==
    /\ Started => mode \in {"polling", "webhook"}
    /\ (mode # "none" /\ ~UrlConfigured) =>
          /\ mode = "polling"
          /\ entered = {"polling"}
    /\ (mode # "none" /\ UrlConfigured) =>
          /\ mode = "webhook"
          /\ entered = {"webhook"}
          /\ (~environ.PORT_SET => listenPort = 8443)
          /\ (environ.PORT = <<"8", "0">> => listenPort = 80)

C7_Witness ==
    /\ mode = "webhook"
    /\ listenPort = 80
    /\ environ.WEBHOOK_URL = "https://bot.example"

\* C8: without a token the process raises at import: no handler is ever
\* registered, no mode is started, no update is processed and nothing is
\* sent or logged.
C8_MissingTokenFatal ==
    environ.TELEGRAM_TOKEN \in {None, ""} =>
        /\ pc \in {"import", "raised"}
        /\ handlers = <<>>
        /\ mode = "none"
        /\ entered = {}
        /\ updates = <<>>
        /\ trace = <<>>

C8_Witness ==
    /\ environ.TELEGRAM_TOKEN = ""
    /\ pc = "raised"

\* C9: whenever a mode has been started all three handlers are registered,
\* and a mode once started is never replaced by the other one.
C9_RegisteredThenOneMode ==
    /\ [](mode # "none" =>
            /\ handlers = <<"start", "help_command", "handle_member_left">>
            /\ entered = {mode})
    /\ [](updates # <<>> => mode # "none")
    /\ [][mode # "none" => mode' = mode]_vars

C9_Witness ==
    /\ mode = "polling"
    /\ pc = "exited"
    /\ Len(updates) > 0

\* C10: a genuine departure yields its departure log entry, then the send,
\* then exactly one outcome entry once the send has finished: an info entry
\* after a success, an error entry after a failure; two log entries in all.
C10_OneOutcomeEntry ==
    \A k \in 1..Len(updates) :
        Genuine(k) =>
            /\ outcome[k] \in {"pending", "ok", "error"}
            /\ Cardinality(SendsOf(k)) = 1
            /\ \A s \in SendsOf(k) :
                  LET before == {i \in LogsOf(k) : i < s}
                      after == {i \in LogsOf(k) : i > s}
                  IN  /\ Cardinality(before) = 1
                      /\ \A i \in before :
                            /\ trace[i].level = "INFO"
                            /\ trace[i].text[1] = "User "
                      /\ (outcome[k] = "pending" => after = {})
                      /\ (outcome[k] # "pending" => Cardinality(after) = 1)
                      /\ \A i \in after :
                            /\ (outcome[k] = "ok" =>
                                  /\ trace[i].level = "INFO"
                                  /\ trace[i].text[1] = "Sent farewell message to ")
                            /\ (outcome[k] = "error" =>
                                  /\ trace[i].level = "ERROR"
                                  /\ trace[i].text[1] = "Could not send message to ")

C10_Witness ==
    /\ \E k \in 1..Len(updates) : Genuine(k) /\ outcome[k] = "ok"
    /\ \E k \in 1..Len(updates) : Genuine(k) /\ outcome[k] = "error"

====
